---- MODULE Spec2Model ----
(***************************************************************************)
(* A model of caddyunmarshal (src/caddyunmarshal.go): decoding a Caddyfile *)
(* directive into a struct, driven by the `caddyfile` struct tags.         *)
(*                                                                         *)
(* Text (token text, tag parts, field names) is a sequence of one-         *)
(* character strings, so that splitting, prefix tests and number parsing   *)
(* are computed.  The call stack of unmarshal / unmarshalBlock is explicit *)
(* and every action is one step of the function on top of the stack.       *)
(* The caddyfile.Dispenser is an imported library: its operations are      *)
(* modelled after caddy v2 and mapped to the places that call them.        *)
(***************************************************************************)
EXTENDS Integers, Sequences, FiniteSets, TLC

\* Bound: the number of fields of the enumerated record types.
MaxFields == 3

-----------------------------------------------------------------------------
(* Text *)

Digits == <<"0", "1", "2", "3", "4", "5", "6", "7", "8", "9">>

IsDigit(c) == \E k \in 1..Len(Digits) : Digits[k] = c

DigitVal(c) == (CHOOSE k \in 1..Len(Digits) : Digits[k] = c) - 1

Upper == {"A", "B", "C", "D", "E", "F", "G", "H", "I", "J", "K", "L", "M",
          "N", "O", "P", "Q", "R", "S", "T", "U", "V", "W", "X", "Y", "Z"}

HasPrefix(s, p) == Len(s) >= Len(p) /\ SubSeq(s, 1, Len(p)) = p

RECURSIVE DigitsVal(_)
DigitsVal(s) ==
    IF s = <<>> THEN 0
    ELSE 10 * DigitsVal(SubSeq(s, 1, Len(s) - 1)) + DigitVal(s[Len(s)])

AllDigits(s) == s # <<>> /\ \A k \in 1..Len(s) : IsDigit(s[k])

\* strconv.ParseInt(raw, 10, bits): an optional sign, then decimal digits; the
\* value must fit bits.  The result is [ok, n].  (The texts of this model have
\* a few digits, so a value always fits 32 bits and more, and the model's
\* integers are never exceeded.)
ParseInt(raw, bits) ==
    LET signed == raw # <<>> /\ raw[1] \in {"+", "-"}
        body   == IF signed THEN Tail(raw) ELSE raw
        n      == IF signed /\ raw[1] = "-" THEN 0 - DigitsVal(body) ELSE DigitsVal(body)
    IN  IF ~AllDigits(body) THEN [ok |-> FALSE, n |-> 0]
        ELSE IF bits < 32 /\ (n < 0 - 2^(bits - 1) \/ n > 2^(bits - 1) - 1)
        THEN [ok |-> FALSE, n |-> 0]
        ELSE [ok |-> TRUE, n |-> n]

\* strconv.Atoi(s) is ParseInt(s, 10, 0), the width of int.
Atoi(s) == ParseInt(s, 64)

\* strconv.ParseBool
ParseBool(raw) ==
    IF raw \in {<<"1">>, <<"t">>, <<"T">>, <<"t","r","u","e">>,
                <<"T","R","U","E">>, <<"T","r","u","e">>}
    THEN [ok |-> TRUE, b |-> TRUE]
    ELSE IF raw \in {<<"0">>, <<"f">>, <<"F">>, <<"f","a","l","s","e">>,
                     <<"F","A","L","S","E">>, <<"F","a","l","s","e">>}
    THEN [ok |-> TRUE, b |-> FALSE]
    ELSE [ok |-> FALSE, b |-> FALSE]

-----------------------------------------------------------------------------
(* Types and values (reflect.Type, reflect.Value) *)

TString == [kind |-> "string"]
TInt == [kind |-> "int", bits |-> 64]
TInt8 == [kind |-> "int", bits |-> 8]
TBool == [kind |-> "bool"]
TMap(k, e) == [kind |-> "map", key |-> k, elem |-> e]
TStruct(fs) == [kind |-> "struct", fields |-> fs]
\* json.RawMessage, the element type of caddy.ModuleMap
TRaw == [kind |-> "slice"]

\* A struct field: its Go name, its `caddyfile` tag split at the commas
\* (<<>> when the tag is absent or empty) and its type.
Fld(name, tag, type) == [name |-> name, tag |-> tag, type |-> type]

RECURSIVE Zero(_, _)
\* The value a target of type t starts with: the zero value, its maps made
\* (non-nil, empty) when the caller prepared them.
Zero(t, made) ==
    CASE t.kind = "string" -> <<>>
      [] t.kind = "int"    -> 0
      [] t.kind = "bool"   -> FALSE
      [] t.kind = "map"    -> [nil |-> ~made, kv |-> <<>>]
      [] t.kind = "struct" -> [k \in 1..Len(t.fields) |-> Zero(t.fields[k].type, made)]
      [] OTHER             -> <<>>

RECURSIVE GetAt(_, _)
GetAt(v, path) == IF path = <<>> THEN v ELSE GetAt(v[Head(path)], Tail(path))

RECURSIVE SetAt(_, _, _)
SetAt(v, path, x) ==
    IF path = <<>> THEN x
    ELSE [v EXCEPT ![Head(path)] = SetAt(v[Head(path)], Tail(path), x)]

-----------------------------------------------------------------------------
(* Errors: the message's kind and the number or name it prints.  ctx lists *)
(* the "error at ...: %w" wrappers, outermost first.                       *)

NoErr == [kind |-> "nil", at |-> <<>>, ctx |-> <<>>]

IsErr(e) == e.kind # "nil"

Err(kind, at) == [kind |-> kind, at |-> at, ctx |-> <<>>]

Wrap(c, err) == [err EXCEPT !.ctx = <<c>> \o @]

-----------------------------------------------------------------------------
(* Slices of fieldInfo.  arrs holds the backing arrays (each as long as its *)
(* capacity, unused slots holding NoField); a slice is an array and a       *)
(* length.  append writes in place while the capacity lasts, so two slices  *)
(* of one array share what is written.                                      *)

NoField == [field |-> 0, kind |-> [k |-> "none"]]

NilSlice == [arr |-> 0, len |-> 0]

Cap(arrs, s) == IF s.arr = 0 THEN 0 ELSE Len(arrs[s.arr])

Elems(arrs, s) == IF s.arr = 0 THEN <<>> ELSE SubSeq(arrs[s.arr], 1, s.len)

\* The capacity append grows a full slice of fieldInfo to (runtime growslice:
\* doubling below 256 elements; a fieldInfo is 160 bytes and 160, 320, 640,
\* 1280 are allocation size classes, so nothing is rounded up).
GrowCap(old) == IF old = 0 THEN 1 ELSE 2 * old

\* append(s, x): the new slice and the arrays after it.
SliceAppend(arrs, s, x) ==
    IF s.len < Cap(arrs, s)
    THEN [arrs |-> [arrs EXCEPT ![s.arr][s.len + 1] = x],
          s    |-> [arr |-> s.arr, len |-> s.len + 1]]
    ELSE LET c   == GrowCap(Cap(arrs, s))
             old == Elems(arrs, s)
             new == [k \in 1..c |-> IF k <= s.len THEN old[k]
                                    ELSE IF k = s.len + 1 THEN x ELSE NoField]
         IN  [arrs |-> Append(arrs, new),
              s    |-> [arr |-> Len(arrs) + 1, len |-> s.len + 1]]

-----------------------------------------------------------------------------
(* Field kinds and the schema *)

blockFieldKind(name)   == [k |-> "blockField", name |-> name]
blockKind(ix, opt)     == [k |-> "block", ix |-> ix, optional |-> opt]
argumentKind(ix, opt)  == [k |-> "argument", ix |-> ix, optional |-> opt]
matcherKind            == [k |-> "matcher"]

\* fieldInfo: field is the position of the struct field (its name, type and
\* value are those of the struct at that position), kind its role.
FieldInfo(f, kind) == [field |-> f, kind |-> kind]

optional(field) ==
    IF field.kind.k \in {"block", "argument"} THEN field.kind.optional ELSE TRUE

index(field) ==
    IF field.kind.k \in {"block", "argument"} THEN field.kind.ix ELSE 0 - 1

RECURSIVE Split(_, _)
\* strings.Split(s, sep) for a one-character sep
Split(s, sep) ==
    IF \E k \in 1..Len(s) : s[k] = sep
    THEN LET k == CHOOSE j \in 1..Len(s) : s[j] = sep /\ \A h \in 1..(j - 1) : s[h] # sep
         IN  <<SubSeq(s, 1, k - 1)>> \o Split(SubSeq(s, k + 1, Len(s)), sep)
    ELSE <<s>>

hasOpt(parts, opt) == \E k \in 1..Len(parts) : parts[k] = opt

OptionalWord == <<"o", "p", "t", "i", "o", "n", "a", "l">>

MatcherWord == <<"$", "m", "a", "t", "c", "h", "e", "r">>

\* blockIxRe = ^\{(\d+)\}$
blockIxMatch(name) ==
    /\ Len(name) >= 3
    /\ name[1] = "{"
    /\ name[Len(name)] = "}"
    /\ AllDigits(SubSeq(name, 2, Len(name) - 1))

IsExported(name) == name # <<>> /\ name[1] \in Upper

RECURSIVE SortByIndex(_)
\* sort.Slice(s, func(i, j) bool { return s[i].index() < s[j].index() }): on
\* at most 12 elements an insertion sort, in which an element moves left past
\* the elements it is less than.
SortByIndex(s) ==
    IF Len(s) <= 1 THEN s
    ELSE LET init == SortByIndex(SubSeq(s, 1, Len(s) - 1))
             x    == s[Len(s)]
             \* the number of sorted elements x stays behind
             keep == IF \E k \in 1..Len(init) : ~(index(x) < index(init[k]))
                     THEN CHOOSE k \in 1..Len(init) :
                            /\ ~(index(x) < index(init[k]))
                            /\ \A h \in (k + 1)..Len(init) : index(x) < index(init[h])
                     ELSE 0
         IN  SubSeq(init, 1, keep) \o <<x>> \o SubSeq(init, keep + 1, Len(init))

\* The switch of the field loop of extractFields for field i, f, whose tag
\* splits into parts.  st holds the arrays, the two slices, the matcher (<<>>
\* for nil) and the error returned.
ClassifyField(i, f, parts, st) ==
    LET name  == parts[1]
        opt   == hasOpt(Tail(parts), OptionalWord)
        named == IF f.tag = <<>> THEN f.name ELSE name
        \* append(info.blockFields, ...), for a block field and for a {N} block
        toBF  == SliceAppend(st.arrs, st.bf, FieldInfo(i, blockFieldKind(named)))
        blk   == SliceAppend(st.arrs, st.bf,
                             FieldInfo(i, blockKind(Atoi(SubSeq(name, 2, Len(name) - 1)).n, opt)))
        \* append(info.otherFields, ...)
        arg   == SliceAppend(st.arrs, st.of,
                             FieldInfo(i, argumentKind(Atoi(Tail(name)).n, opt)))
    IN  IF ~IsExported(f.name) THEN st
        ELSE IF f.tag = <<>> THEN [st EXCEPT !.arrs = toBF.arrs, !.bf = toBF.s]
        ELSE IF name = <<"-">> THEN st
        ELSE IF name = MatcherWord
             THEN [st EXCEPT !.matcher = <<FieldInfo(i, matcherKind)>>]
        ELSE IF blockIxMatch(name)
             THEN IF ~Atoi(SubSeq(name, 2, Len(name) - 1)).ok
                  THEN [st EXCEPT !.err = Err("invalid block index", name)]
                  \* info.otherFields = append(info.blockFields, ...)
                  ELSE [st EXCEPT !.arrs = blk.arrs, !.of = blk.s]
        ELSE IF HasPrefix(name, <<"$">>)
             THEN IF ~Atoi(Tail(name)).ok
                  THEN [st EXCEPT !.err = Err("invalid argument index", name)]
                  ELSE [st EXCEPT !.arrs = arg.arrs, !.of = arg.s]
        ELSE [st EXCEPT !.arrs = toBF.arrs, !.bf = toBF.s]

\* One iteration of the field loop
ExtractField(fields, i, st) == ClassifyField(i, fields[i], Split(fields[i].tag, ","), st)

RECURSIVE ExtractLoop(_, _, _)
\* The field loop from field i on; an error returns at once.
ExtractLoop(fields, i, st) ==
    IF i > Len(fields) \/ IsErr(st.err) THEN st
    ELSE ExtractLoop(fields, i + 1, ExtractField(fields, i, st))

\* "validate that optional fields are at the end": the error of the first
\* position at which a non-optional field follows an optional one.
SuffixCheck(otherFields) ==
    LET bad == {i \in 1..Len(otherFields) :
                  /\ ~optional(otherFields[i])
                  /\ \E h \in 1..(i - 1) : optional(otherFields[h])}
    IN  IF bad = {} THEN NoErr
        ELSE Err("illegal non-optional field follows optional field",
                 (CHOOSE i \in bad : \A h \in bad : i <= h) - 1)

\* "validate that all field indices are unique": the error of the first
\* field whose index an earlier field has.
UniqueCheck(otherFields) ==
    LET dup == {i \in 1..Len(otherFields) :
                  \E h \in 1..(i - 1) : index(otherFields[h]) = index(otherFields[i])}
    IN  IF dup = {} THEN NoErr
        ELSE Err("duplicate field index",
                 index(otherFields[CHOOSE i \in dup : \A h \in dup : i <= h]))

NoInfo == [blockFields |-> <<>>, otherFields |-> <<>>, matcher |-> <<>>]

\* sort.Slice(info.blockFields, ...), in place in the backing array of
\* blockFields; the two slices are then read from the arrays.
SortedInfo(st, sorted) ==
    [blockFields |-> sorted,
     otherFields |-> IF st.of.arr = st.bf.arr
                     THEN [k \in 1..st.of.len |->
                             IF k <= st.bf.len THEN sorted[k] ELSE st.arrs[st.of.arr][k]]
                     ELSE Elems(st.arrs, st.of),
     matcher     |-> st.matcher]

\* The two validations of extractFields, in the code's order
Validated(info, e1, e2) ==
    IF IsErr(e1) THEN [err |-> e1, info |-> NoInfo]
    ELSE IF IsErr(e2) THEN [err |-> e2, info |-> NoInfo]
    ELSE [err |-> NoErr, info |-> info]

ValidatedInfo(info) ==
    Validated(info, SuffixCheck(info.otherFields), UniqueCheck(info.otherFields))

ExtractDone(st) ==
    IF IsErr(st.err) THEN [err |-> st.err, info |-> NoInfo]
    ELSE ValidatedInfo(SortedInfo(st, SortByIndex(Elems(st.arrs, st.bf))))

\* extractFields(r) for a struct type t: [err, info].  (On any other kind
\* r.v.NumField() panics; the callers model that.)
extractFields(t) ==
    ExtractDone(ExtractLoop(t.fields, 1,
                            [arrs |-> <<>>, bf |-> NilSlice, of |-> NilSlice,
                             matcher |-> <<>>, err |-> NoErr]))

blockFieldNamed(info, fields, name) ==
    LET hit == {k \in 1..Len(info.blockFields) :
                  fields[info.blockFields[k].field].name = name}
    IN  IF hit = {} THEN [ok |-> FALSE, field |-> NoField]
        ELSE [ok |-> TRUE,
              field |-> info.blockFields[CHOOSE k \in hit : \A h \in hit : k <= h]]

\* ix is the caller's 0-based position
otherFieldAt(info, ix) ==
    IF ix < 0 \/ ix >= Len(info.otherFields) THEN [ok |-> FALSE, field |-> NoField]
    ELSE [ok |-> TRUE, field |-> info.otherFields[ix + 1]]

-----------------------------------------------------------------------------
(* State *)

VARIABLES
    target,    \* the type T of the struct the caller passes
    tokens,    \* the dispenser's tokens, each [text, line]; the first is the
               \* directive name, which the caller has consumed
    d,         \* the dispenser: [cursor, nesting], cursor counted from 0
    http,      \* whether dispenser.http is set (UnmarshalForHTTP)
    heap,      \* the values decoded into: heap[1] is *v, the cells after it
               \* are the map values under construction
    stack,     \* the calls of unmarshal and unmarshalBlock, innermost last
    status,    \* "idle", "running", "ok", "error" or "panic"
    ret,       \* the error the last call to return returned
    walk       \* history: the arguments and blocks the main loops routed, the
               \* flags set and the errors made

vars == <<target, tokens, d, http, heap, stack, status, ret, walk>>

-----------------------------------------------------------------------------
(* caddyfile.Dispenser (caddy v2), on the tokens of this run *)

Tok(text, line) == [text |-> text, line |-> line]

Val(dd) ==
    IF dd.cursor < 0 \/ dd.cursor >= Len(tokens) THEN <<>>
    ELSE tokens[dd.cursor + 1].text

\* Next: [ok, d]
Next_(dd) ==
    IF dd.cursor < Len(tokens) - 1
    THEN [ok |-> TRUE, d |-> [dd EXCEPT !.cursor = @ + 1]]
    ELSE [ok |-> FALSE, d |-> dd]

nextOnSameLine(dd) ==
    IF dd.cursor < 0 THEN [ok |-> TRUE, d |-> [dd EXCEPT !.cursor = @ + 1]]
    ELSE IF dd.cursor >= Len(tokens) - 1 THEN [ok |-> FALSE, d |-> dd]
    ELSE IF ~(tokens[dd.cursor + 1].line < tokens[dd.cursor + 2].line)
         THEN [ok |-> TRUE, d |-> [dd EXCEPT !.cursor = @ + 1]]
         ELSE [ok |-> FALSE, d |-> dd]

NextArg(dd) ==
    LET n == nextOnSameLine(dd)
    IN  IF ~n.ok THEN [ok |-> FALSE, d |-> dd]
        ELSE IF Val(n.d) = <<"{">> THEN [ok |-> FALSE, d |-> dd]
        ELSE n

\* `d.Val() == "{" && !d.nextOnSameLine()`: a "{" ending its line opens a
\* level; followed by a token on its line it is stepped over with that token.
OpenStep(dd) ==
    IF Val(dd) = <<"{">>
    THEN IF nextOnSameLine(dd).ok THEN nextOnSameLine(dd).d
         ELSE [dd EXCEPT !.nesting = @ + 1]
    ELSE dd

NextBlock(dd, initialNestingLevel) ==
    IF dd.nesting > initialNestingLevel
    THEN LET n == Next_(dd)
             after == IF Val(n.d) = <<"}">>
                      THEN IF nextOnSameLine(n.d).ok
                           THEN OpenStep(nextOnSameLine(n.d).d)
                           ELSE [n.d EXCEPT !.nesting = @ - 1]
                      ELSE OpenStep(n.d)
         IN  IF ~n.ok THEN [ok |-> FALSE, d |-> dd]
             ELSE [ok |-> after.nesting > initialNestingLevel, d |-> after]
    ELSE LET s == nextOnSameLine(dd)
             o == Next_(s.d)
         IN  IF ~s.ok THEN [ok |-> FALSE, d |-> dd]
             ELSE IF Val(s.d) # <<"{">> THEN [ok |-> FALSE, d |-> dd]
             ELSE IF Val(o.d) = <<"}">> THEN [ok |-> FALSE, d |-> o.d]
             ELSE [ok |-> TRUE, d |-> [o.d EXCEPT !.nesting = @ + 1]]

RECURSIVE CountRemainingArgs(_)
\* counts the NextArg that succeed, then steps back as many times
CountRemainingArgs(dd) ==
    IF NextArg(dd).ok THEN 1 + CountRemainingArgs(NextArg(dd).d) ELSE 0

RECURSIVE SkipArgs(_)
SkipArgs(dd) == IF NextArg(dd).ok THEN SkipArgs(NextArg(dd).d) ELSE dd

RECURSIVE SkipBlock(_, _, _)
SkipBlock(dd, nesting, opened) ==
    LET nb == NextBlock(dd, nesting)
    IN  IF nb.ok THEN SkipBlock(nb.d, nesting, TRUE)
        ELSE [d |-> nb.d, opened |-> opened]

\* NextSegment: the rest of the line, the block it opens, and what follows the
\* closing brace on its line; the dispenser after it.
NextSegment(dd) ==
    LET a == SkipArgs(dd)
        b == SkipBlock(a, a.nesting, FALSE)
    IN  IF b.opened THEN SkipArgs(b.d) ELSE b.d

NilMap == [nil |-> TRUE, kv |-> <<>>]

\* httpcaddyfile.Helper.MatcherToken: [value, ok, err, d].  "*" is the
\* catch-all (a nil module map), "/..." a path matcher, "@name" a named
\* matcher, of which the helper of this model defines none.
MatcherToken(dd) ==
    LET n == NextArg(dd)
        t == Val(n.d)
    IN  IF ~n.ok THEN [value |-> NilMap, ok |-> FALSE, err |-> NoErr, d |-> dd]
        ELSE IF t = <<"*">> THEN [value |-> NilMap, ok |-> TRUE, err |-> NoErr, d |-> n.d]
        ELSE IF HasPrefix(t, <<"/">>)
             THEN [value |-> [nil |-> FALSE, kv |-> (<<"p", "a", "t", "h">> :> <<t>>)],
                   ok |-> TRUE, err |-> NoErr, d |-> n.d]
        ELSE IF HasPrefix(t, <<"@">>)
             THEN [value |-> NilMap, ok |-> FALSE,
                   err |-> Err("unrecognized matcher name", t), d |-> n.d]
        ELSE [value |-> NilMap, ok |-> FALSE, err |-> NoErr, d |-> n.d]

-----
(* Value coercion *)

TypeCaddyModuleMap == [kind |-> "map", key |-> TString, elem |-> TRaw]

AssignableTo(t, u) == t.kind = u.kind /\ t = u

\* unmarshalValue(d, r, raw) for a value of type t: [err, v], v the value set
\* when err is nil.  No type of this model implements caddyfile.Unmarshaler
\* or is one of the caddy address and duration types.
unmarshalValue(t, raw) ==
    CASE t.kind = "string" -> [err |-> NoErr, v |-> raw]
      [] t.kind = "int" ->
            LET n == ParseInt(raw, t.bits)
            IN  IF n.ok THEN [err |-> NoErr, v |-> n.n]
                ELSE [err |-> Err("cannot parse int", raw), v |-> 0]
      [] t.kind = "bool" ->
            LET b == ParseBool(raw)
            IN  IF b.ok THEN [err |-> NoErr, v |-> b.b]
                ELSE [err |-> Err("cannot parse boolean value", raw), v |-> FALSE]
      [] OTHER -> [err |-> Err("cannot unmarshal value of unsupported type", t.kind),
                   v |-> <<>>]

-----------------------------------------------------------------------------
(* The inputs: record types and directives *)

OPT == <<",">> \o OptionalWord

\* struct{ V string `caddyfile:"$1"` } and struct{ V int8 `caddyfile:"$1"` }
TLine == TStruct(<<Fld(<<"V">>, <<"$", "1">>, TString)>>)
TLine8 == TStruct(<<Fld(<<"V">>, <<"$", "1">>, TInt8)>>)

\* src/caddyunmarshal_test.go: thing1, thing2, thing3
thing1 ==
    TStruct(<<Fld(<<"A","r","g","1">>, <<"$","1">>, TString),
              Fld(<<"A","r","g","2">>, <<"$","3">> \o OPT, TString),
              Fld(<<"J","u","n","k","1">>, <<"{","2","}">>, TMap(TString, TString)),
              Fld(<<"J","u","n","k","2">>, <<"{","4","}">> \o OPT, TMap(TString, TString))>>)

thing2 ==
    TStruct(<<Fld(<<"A","r","g","1">>, <<"$","1">>, TString),
              Fld(<<"A","r","g","2">>, <<"$","2">> \o OPT, TString),
              Fld(<<"P","a","r","a","m">>, <<"p","a","r","a","m","e","t","e","r">>, TString),
              Fld(<<"N","u","m","b","e","r">>, <<>>, TInt),
              Fld(<<"F","l","a","g">>, <<>>, TBool)>>)

thing3 ==
    TStruct(<<Fld(<<"M","a","t","c","h","e","r">>, MatcherWord, TypeCaddyModuleMap),
              Fld(<<"A","r","g","1">>, <<"$","1">>, TString),
              Fld(<<"A","r","g","2">>, <<"$","2">> \o OPT, TString)>>)

\* A record with a nested record as its {1} block and an optional argument
\* after it; the nested record has a flag and a nested line.
TInner ==
    TStruct(<<Fld(<<"F","l","a","g">>, <<>>, TBool),
              Fld(<<"N","u","m">>, <<>>, TLine8),
              Fld(<<"h","i","d">>, <<>>, TString),
              Fld(<<"S","k","i","p">>, <<"-">>, TString)>>)

TOuter ==
    TStruct(<<Fld(<<"B","o","d","y">>, <<"{","1","}">>, TInner),
              Fld(<<"X">>, <<"$","2">> \o OPT, TString)>>)

\* A record decoded from its own (implicit) body
TImpl ==
    TStruct(<<Fld(<<"A">>, <<"$","1">>, TString),
              Fld(<<"F","l","a","g">>, <<>>, TBool),
              Fld(<<"N","u","m">>, <<>>, TLine8)>>)

\* A record whose {1} block is a map of lines
TDict == TStruct(<<Fld(<<"J","u","n","k">>, <<"{","1","}">>, TMap(TString, TLine))>>)

\* A record of an int8 and a boolean argument
TNums ==
    TStruct(<<Fld(<<"N">>, <<"$","1">>, TInt8),
              Fld(<<"B">>, <<"$","2">> \o OPT, TBool)>>)

\* A record whose tags break the rule of the optional suffix, as the type of
\* a {1} block and as the type of a line of the body
TBad ==
    TStruct(<<Fld(<<"A">>, <<"$","1">> \o OPT, TString),
              Fld(<<"B">>, <<"$","2">>, TString)>>)

TBadBlock == TStruct(<<Fld(<<"B","o","d","y">>, <<"{","1","}">>, TBad)>>)

TBadLine == TStruct(<<Fld(<<"N","u","m">>, <<>>, TBad), Fld(<<"F","l","a","g">>, <<>>, TBool)>>)

\* The tags of the enumerated record types
GenTags ==
    << <<"$","1">>, <<"$","2">>, <<"$","3">>,
       <<"$","2">> \o OPT, <<"$","3">> \o OPT,
       <<"{","1","}">>, <<"{","2","}">> \o OPT,
       <<>> >>

GenType(tag) ==
    IF tag = <<>> THEN TBool
    ELSE IF tag[1] = "{" THEN TMap(TString, TLine)
    ELSE TString

\* Field k of an enumerated record is named Fk.
GenRecord(tags) ==
    TStruct([k \in 1..Len(tags) |->
               Fld(<<"F", Digits[k + 1]>>, GenTags[tags[k]], GenType(GenTags[tags[k]]))])

GenRecords ==
    {GenRecord(tags) : tags \in UNION {[1..n -> 1..Len(GenTags)] : n \in 1..MaxFields}}

RECURSIVE Lines(_, _)
\* The tokens of a directive given as its lines, the first numbered n
Lines(ls, n) ==
    IF ls = <<>> THEN <<>>
    ELSE [k \in 1..Len(Head(ls)) |-> Tok(Head(ls)[k], n)] \o Lines(Tail(ls), n + 1)

ta == <<"a">>
tb == <<"b">>
tc == <<"c">>
tk == <<"k">>
tv == <<"v">>
tw == <<"w">>
tdir == <<"d">>
tOpen == <<"{">>
tClose == <<"}">>
tFlag == <<"F","l","a","g">>
tNum == <<"N","u","m">>

GenStreams ==
    { Lines(<< <<tdir>> >>, 1),
      Lines(<< <<tdir, ta>> >>, 1),
      Lines(<< <<tdir, ta, tb>> >>, 1),
      Lines(<< <<tdir, ta, tb, tc>> >>, 1),
      Lines(<< <<tdir, ta, tOpen>>, <<tk, tv>>, <<tClose>> >>, 1) }

\* src/caddyunmarshal_test.go, testCaddyfile
stream1 ==
    Lines(<< << <<"t","h","i","n","g","1">>, <<"a","r","g","1">>, tOpen >>,
             << <<"f","o","o">>, <<"b","a","r">> >>,
             << <<"b","a","z">>, <<"q","u","x">> >>,
             << tClose, <<"a","r","g","2">>, tOpen >>,
             << <<"f","o","o">>, <<"b","a","r">> >>,
             << <<"b","a","z">>, <<"q","u","x">> >>,
             << tClose >> >>, 1)

stream2 ==
    Lines(<< << <<"t","h","i","n","g","2">>, <<"a","r","g","1">>, <<"a","r","g","2">>, tOpen >>,
             << <<"p","a","r","a","m","e","t","e","r">>, <<"v","a","l","u","e">> >>,
             << <<"n","u","m","b","e","r">>, <<"1","0","0">> >>,
             << <<"f","l","a","g">> >>,
             << tClose >> >>, 1)

\* thing2's body with the lines named as the Go fields are
stream2Go ==
    Lines(<< << <<"t","h","i","n","g","2">>, <<"a","r","g","1">>, <<"a","r","g","2">>, tOpen >>,
             << tFlag >>,
             << <<"N","u","m","b","e","r">>, <<"1","0","0">> >>,
             << tClose >> >>, 1)

stream3 ==
    Lines(<< << <<"t","h","i","n","g","3">>, <<"/","*">>, <<"a","r","g","1">>,
                <<"a","r","g","2">>, <<"{","}">> >> >>, 1)

stream3NoMatcher ==
    Lines(<< << <<"t","h","i","n","g","3">>, <<"a","r","g","1">>, <<"a","r","g","2">> >> >>, 1)

Body(ls) == Lines(<< <<tdir, tOpen>> >> \o ls \o << <<tClose>> >>, 1)

ArgBody(ls) == Lines(<< <<tdir, ta, tOpen>> >> \o ls \o << <<tClose>> >>, 1)

BodyStreams ==
    { Body(<< <<tFlag>> >>),
      Body(<< <<tFlag, tb>> >>),
      Body(<< <<tFlag>>, <<tNum, <<"7">> >> >>),
      Body(<< <<tNum, <<"3","0","0">> >>, <<tFlag>> >>),
      Body(<< <<tNum, <<"7">>, tb>>, <<tFlag>> >>),
      Body(<< <<tNum>>, <<tFlag>> >>),
      Body(<< <<<<"U","n","k">>, ta, tb>>, <<tFlag>> >>),
      Body(<< <<<<"U","n","k">>, tOpen>>, <<tFlag>>, <<tClose>>, <<tNum, <<"7">> >> >>),
      Body(<< <<<<"h","i","d">>, ta>>, <<<<"S","k","i","p">>, ta>>, <<tFlag>> >>),
      Body(<< <<tNum, <<"7">> >>, <<tNum, <<"3","0","0">> >> >>) }

DictStreams ==
    { Body(<< <<tk, tv>> >>),
      Body(<< <<tk, tv>>, <<tk, tw>> >>),
      Body(<< <<tk, tv>>, <<ta, tw>> >>),
      Body(<< <<tk>>, <<ta, tw>> >>),
      Body(<< <<tk, tv, tw>>, <<ta, tw>> >>) }

NumStreams ==
    { Lines(<< <<tdir, <<"7">>, <<"t","r","u","e">> >> >>, 1),
      Lines(<< <<tdir, <<"-","5">>, <<"0">> >> >>, 1),
      Lines(<< <<tdir, <<"3","0","0">> >> >>, 1),
      Lines(<< <<tdir, <<"-","1","2","9">> >> >>, 1),
      Lines(<< <<tdir, <<"x">> >> >>, 1),
      Lines(<< <<tdir, <<"7">>, <<"m","a","y","b","e">> >> >>, 1) }

\* Two blocks after an argument, the second opened on a line that fails
TwoBlocks ==
    Lines(<< <<tdir, ta, tOpen>>, <<tNum, <<"3","0","0">>, tOpen>>, <<tFlag>>,
             <<tClose>>, <<tClose>> >>, 1)

In(t, toks, made) == [T |-> t, tokens |-> toks, made |-> made]

Inputs ==
    {In(t, toks, TRUE) : t \in GenRecords, toks \in GenStreams}
    \cup {In(thing1, stream1, m) : m \in BOOLEAN}
    \cup {In(thing2, toks, TRUE) : toks \in {stream2, stream2Go}}
    \cup {In(thing3, toks, TRUE) : toks \in {stream3, stream3NoMatcher}}
    \cup {In(TOuter, toks, TRUE) : toks \in BodyStreams}
    \cup {In(TImpl, ArgBody(<< <<tFlag>>, <<tNum, <<"7">> >> >>), TRUE),
          In(TImpl, ArgBody(<< <<tFlag, tb>> >>), TRUE),
          In(TImpl, Body(<< <<tFlag>> >>), TRUE)}
    \cup {In(TDict, toks, m) : toks \in DictStreams, m \in BOOLEAN}
    \cup {In(TNums, toks, TRUE) : toks \in NumStreams}
    \cup {In(TImpl, TwoBlocks, TRUE)}
    \cup {In(t, Body(<< <<tNum, ta>>, <<tFlag>> >>), TRUE) : t \in {TBadBlock, TBadLine}}
    \cup {In(TString, Lines(<< <<tdir, ta>> >>, 1), TRUE)}

-----------------------------------------------------------------------------
(* Calls *)

\* reflectValue: the cell and the path of fields to the value, and its type
Ref(cell, path, t) == [cell |-> cell, path |-> path, t |-> t]

\* field.value of a fieldInfo of the struct r
FieldRef(r, fi) == Ref(r.cell, Append(r.path, fi.field), r.t.fields[fi.field].type)

Frame(fn, r, nesting) ==
    [fn |-> fn, pc |-> "enter", r |-> r, info |-> NoInfo, i |-> 0,
     hadBlock |-> FALSE, nesting |-> nesting, isMap |-> FALSE,
     key |-> <<>>, val |-> 0]

Top == stack[Len(stack)]

At(fn, pc) == status = "running" /\ stack # <<>> /\ Top.fn = fn /\ Top.pc = pc

\* What a step does: "panic", "return" (with err), "stay" (in the frame, now
\* frame) or "call" (callee, leaving frame behind).
Out(t) ==
    [t |-> t, err |-> NoErr, d |-> d, heap |-> heap, walk |-> walk,
     frame |-> Top, callee |-> Top]

\* The history's entry of an error made (not one passed on) by the function
\* on top of the stack, the dispenser at dd
Made(err, dd) ==
    [what |-> "error", kind |-> err.kind, fn |-> Top.fn, cursor |-> dd.cursor,
     depth |-> Len(stack)]

\* return err, an error made here, with the dispenser at dd
Fail(err, dd) ==
    [Out("return") EXCEPT !.err = err, !.d = dd, !.walk = Append(walk, Made(err, dd))]

Do(o) ==
    /\ d' = o.d
    /\ heap' = o.heap
    /\ walk' = o.walk
    /\ stack' = CASE o.t = "return" -> SubSeq(stack, 1, Len(stack) - 1)
                  [] o.t = "stay"   -> [stack EXCEPT ![Len(stack)] = o.frame]
                  [] o.t = "call"   -> Append([stack EXCEPT ![Len(stack)] = o.frame], o.callee)
                  [] OTHER          -> stack
    /\ ret' = IF o.t = "return" THEN o.err ELSE ret
    /\ status' = CASE o.t = "panic" -> "panic"
                   [] o.t = "return" /\ Len(stack) = 1 ->
                        IF IsErr(o.err) THEN "error" ELSE "ok"
                   [] OTHER -> status
    /\ UNCHANGED <<target, tokens, http>>

-----------------------------------------------------------------------------
(* Unmarshal, UnmarshalForHTTP *)

\* newReflectValue, then unmarshal(dispenser{d, helper}, r)
Enter(helper) ==
    /\ status = "idle"
    /\ http' = helper
    /\ IF target.kind # "struct"
       THEN /\ status' = "error"
            /\ ret' = Err("expected struct value", target.kind)
            /\ stack' = stack
       ELSE /\ status' = "running"
            /\ ret' = ret
            /\ stack' = <<Frame("unmarshal", Ref(1, <<>>, target), 0)>>
    /\ UNCHANGED <<target, tokens, d, heap, walk>>

Unmarshal == Enter(FALSE)

UnmarshalForHTTP == Enter(TRUE)

-----------------------------------------------------------------------------
(* unmarshal *)

\* unmarshalEnterWith leaving the matcher out, instead of failing, when the
\* dispenser has no helper
unmarshalEnterNoHelper(fr, e, m) ==
    IF IsErr(e.err) THEN Fail(Wrap(<<"cannot extract fields">>, e.err), d)
    ELSE IF e.info.matcher = <<>> \/ ~http
    THEN [Out("stay") EXCEPT !.frame = [fr EXCEPT !.info = e.info, !.pc = "loop"]]
    ELSE IF ~AssignableTo(fr.r.t, TypeCaddyModuleMap)
    THEN Fail(Err("cannot unmarshal matcher: expected caddy.ModuleMap", 0), d)
    ELSE IF IsErr(m.err) THEN Fail(Wrap(<<"cannot get module map">>, m.err), m.d)
    ELSE [Out("stay") EXCEPT
            !.d = m.d,
            !.heap = IF m.ok THEN [heap EXCEPT ![fr.r.cell] = SetAt(@, fr.r.path, m.value)]
                     ELSE heap,
            !.frame = [fr EXCEPT !.info = e.info, !.pc = "loop"]]

\* unmarshal up to its main loop, given the schema e and the matcher token m
\* (read only when the schema has a matcher and the checks before it pass)
unmarshalEnterWith(fr, e, m) ==
    IF IsErr(e.err) THEN Fail(Wrap(<<"cannot extract fields">>, e.err), d)
    ELSE IF e.info.matcher = <<>>
    THEN [Out("stay") EXCEPT !.frame = [fr EXCEPT !.info = e.info, !.pc = "loop"]]
    ELSE IF ~http
    THEN Fail(Err("cannot unmarshal matcher: UnmarshalForHTTP was not called", 0), d)
    ELSE IF ~AssignableTo(fr.r.t, TypeCaddyModuleMap)
    THEN Fail(Err("cannot unmarshal matcher: expected caddy.ModuleMap", 0), d)
    ELSE IF IsErr(m.err) THEN Fail(Wrap(<<"cannot get module map">>, m.err), m.d)
    ELSE [Out("stay") EXCEPT
            !.d = m.d,
            \* r.v.Set(reflect.ValueOf(moduleMap))
            !.heap = IF m.ok THEN [heap EXCEPT ![fr.r.cell] = SetAt(@, fr.r.path, m.value)]
                     ELSE heap,
            !.frame = [fr EXCEPT !.info = e.info, !.pc = "loop"]]

\* The schema and the matcher, up to the main loop
unmarshalEnterOut(fr) ==
    IF fr.r.t.kind # "struct" THEN Out("panic")
    ELSE unmarshalEnterWith(fr, extractFields(fr.r.t), MatcherToken(d))

unmarshalEnter ==
    /\ At("unmarshal", "enter")
    /\ Do(unmarshalEnterOut(Top))

\* loopArgWith storing what the failed parse gave before returning its error
loopArgStoresFirst(fr, dd, raw, f, uv) ==
    IF ~f.ok THEN Fail(Err("unexpected argument", fr.i), dd)
    ELSE IF IsErr(uv.err)
    THEN [Fail(Wrap(<<"at", fr.i>>, uv.err), dd) EXCEPT
            !.heap = [heap EXCEPT ![fr.r.cell] =
                        SetAt(@, Append(fr.r.path, f.field.field), uv.v)]]
    ELSE [Out("stay") EXCEPT
            !.d = dd,
            !.heap = [heap EXCEPT ![fr.r.cell] =
                        SetAt(@, Append(fr.r.path, f.field.field), uv.v)],
            !.walk = Append(walk, [what |-> "arg", depth |-> Len(stack), i |-> fr.i,
                                   field |-> f.field.field, tok |-> raw]),
            !.frame = [fr EXCEPT !.i = @ + 1]]

\* loopArgWith with the check of otherFieldAt's ok left out: an argument past
\* the last field is stepped over.
loopArgLenient(fr, dd, raw, f, uv) ==
    IF ~f.ok THEN [Out("stay") EXCEPT !.d = dd, !.frame = [fr EXCEPT !.i = @ + 1]]
    ELSE IF IsErr(uv.err) THEN Fail(Wrap(<<"at", fr.i>>, uv.err), dd)
    ELSE [Out("stay") EXCEPT
            !.d = dd,
            !.heap = [heap EXCEPT ![fr.r.cell] =
                        SetAt(@, Append(fr.r.path, f.field.field), uv.v)],
            !.frame = [fr EXCEPT !.i = @ + 1]]

\* case d.NextArg(), with the dispenser at dd on the argument raw and f the
\* outcome of otherFieldAt(i)
loopArgWith(fr, dd, raw, f, uv) ==
    IF ~f.ok THEN Fail(Err("unexpected argument", fr.i), dd)
    ELSE IF IsErr(uv.err) THEN Fail(Wrap(<<"at", fr.i>>, uv.err), dd)
    ELSE [Out("stay") EXCEPT
            !.d = dd,
            !.heap = [heap EXCEPT ![fr.r.cell] =
                        SetAt(@, Append(fr.r.path, f.field.field), uv.v)],
            !.walk = Append(walk, [what |-> "arg", depth |-> Len(stack), i |-> fr.i,
                                   field |-> f.field.field, tok |-> raw]),
            !.frame = [fr EXCEPT !.i = @ + 1]]

\* The value of unmarshalValue for the field f found (none when not found)
argValue(fr, f, raw) ==
    IF f.ok THEN unmarshalValue(FieldRef(fr.r, f.field).t, raw)
    ELSE [err |-> NoErr, v |-> <<>>]

loopArgOut(fr) ==
    loopArgWith(fr, NextArg(d).d, Val(NextArg(d).d), otherFieldAt(fr.info, fr.i),
                argValue(fr, otherFieldAt(fr.info, fr.i), Val(NextArg(d).d)))

loopArg ==
    /\ At("unmarshal", "loop")
    /\ NextArg(d).ok
    /\ Do(loopArgOut(Top))

\* The call of unmarshalBlock(d, nesting, value), the dispenser at dd in the
\* block
blockCall(fr, dd, nesting, value, had, fld) ==
    [Out("call") EXCEPT
       !.d = dd,
       !.walk = Append(walk, [what |-> "block", depth |-> Len(stack), i |-> fr.i,
                              field |-> fld, tok |-> Val(dd)]),
       !.frame = [fr EXCEPT !.pc = "block", !.hadBlock = had, !.nesting = nesting],
       !.callee = Frame("unmarshalBlock", value, nesting)]

\* loopBlockWith without the check of hadBlock: every block with no field at
\* i is taken as the record's body
loopBlockAnyBody(fr, dd, nesting, f) ==
    IF f.ok THEN blockCall(fr, dd, nesting, FieldRef(fr.r, f.field), fr.hadBlock, f.field.field)
    ELSE blockCall(fr, dd, nesting, fr.r, TRUE, 0)

\* case d.NextBlock(nesting), up to the call of unmarshalBlock
loopBlockWith(fr, dd, nesting, f) ==
    IF f.ok THEN blockCall(fr, dd, nesting, FieldRef(fr.r, f.field), fr.hadBlock, f.field.field)
    ELSE IF fr.hadBlock THEN Fail(Err("unexpected block", fr.i), dd)
    \* "we'll unmarshal into the current struct"
    ELSE blockCall(fr, dd, nesting, fr.r, TRUE, 0)

loopBlockOut(fr) ==
    loopBlockWith(fr, NextBlock(d, d.nesting).d, d.nesting, otherFieldAt(fr.info, fr.i))

loopBlock ==
    /\ At("unmarshal", "loop")
    /\ ~NextArg(d).ok
    /\ NextBlock(d, d.nesting).ok
    /\ Do(loopBlockOut(Top))

\* unmarshalBlock has returned ret
afterBlockOut(fr) ==
    IF IsErr(ret) THEN [Out("return") EXCEPT !.err = Wrap(<<"at", fr.i>>, ret)]
    ELSE [Out("stay") EXCEPT !.frame = [fr EXCEPT !.i = @ + 1, !.pc = "loop"]]

afterBlock ==
    /\ At("unmarshal", "block")
    /\ Do(afterBlockOut(Top))

\* missingRequired reporting the field's place counted from 1, as the tags
\* count
missingRequiredOneBased(info, i) ==
    LET req == {p \in i..(Len(info.otherFields) - 1) : ~optional(info.otherFields[p + 1])}
    IN  IF req = {} THEN NoErr
        ELSE Err("missing required field", 1 + CHOOSE p \in req : \A q \in req : p <= q)

\* "check if we still have fields to unmarshal": i is the loop's final i; the
\* number reported is i+j, counted from 0 in otherFields
missingRequired(info, i) ==
    LET req == {p \in i..(Len(info.otherFields) - 1) : ~optional(info.otherFields[p + 1])}
    IN  IF req = {} THEN NoErr
        ELSE Err("missing required field", CHOOSE p \in req : \A q \in req : p <= q)

loopEndWith(err, dd) ==
    IF IsErr(err) THEN Fail(err, dd) ELSE [Out("return") EXCEPT !.d = dd]

\* default: break loop, and the check after the loop
loopEndOut(fr) == loopEndWith(missingRequired(fr.info, fr.i), NextBlock(d, d.nesting).d)

loopEnd ==
    /\ At("unmarshal", "loop")
    /\ ~NextArg(d).ok
    /\ ~NextBlock(d, d.nesting).ok
    /\ Do(loopEndOut(Top))

-----------------------------------------------------------------------------
(* unmarshalBlock *)

unmarshalBlockEnterWith(fr, e) ==
    IF IsErr(e.err) THEN Fail(Wrap(<<"cannot extract fields">>, e.err), d)
    ELSE [Out("stay") EXCEPT !.frame = [fr EXCEPT !.info = e.info, !.pc = "parse"]]

unmarshalBlockEnterOut(fr) ==
    IF fr.r.t.kind = "struct" THEN unmarshalBlockEnterWith(fr, extractFields(fr.r.t))
    ELSE IF fr.r.t.kind = "map"
    THEN [Out("stay") EXCEPT !.frame = [fr EXCEPT !.isMap = TRUE, !.pc = "parse"]]
    ELSE Fail(Err("expected struct or map", fr.r.t.kind), d)

unmarshalBlockEnter ==
    /\ At("unmarshalBlock", "enter")
    /\ Do(unmarshalBlockEnterOut(Top))

\* What unmarshalBlock returns when parse() returned err:
\* `if err := parse(); err != nil { return nil }`
lineError(err) == NoErr

\* The loop of unmarshalBlock after parse() returned err with the dispenser
\* at dd, the heap h and the history w; nb is d.NextBlock(nesting) from dd.
blockLoopOut(fr, err, dd, h, w, nb) ==
    IF IsErr(err)
    THEN [Out("return") EXCEPT !.err = lineError(err), !.d = dd, !.heap = h, !.walk = w]
    ELSE IF nb.ok
    THEN [Out("stay") EXCEPT !.d = nb.d, !.heap = h, !.walk = w,
                             !.frame = [fr EXCEPT !.pc = "parse", !.key = <<>>, !.val = 0]]
    ELSE [Out("return") EXCEPT !.d = nb.d, !.heap = h, !.walk = w]

\* r.v.SetMapIndex(key, val) on the heap h: the map with key set to the value
\* of the cell val
setMapIndex(fr, h, m) ==
    [m EXCEPT !.kv = [k \in (DOMAIN m.kv) \cup {fr.key} |->
                        IF k = fr.key THEN h[fr.val] ELSE m.kv[k]]]

\* defer func() { r.v.SetMapIndex(key, val) }() as parse returns: [panic, heap].
\* Setting a key of a nil map panics.  The cell of val is the last one and is
\* dropped.
deferred(fr, h) ==
    IF fr.val = 0 THEN [panic |-> FALSE, heap |-> h]
    ELSE IF GetAt(h[fr.r.cell], fr.r.path).nil THEN [panic |-> TRUE, heap |-> h]
    ELSE [panic |-> FALSE,
          heap |-> [SubSeq(h, 1, fr.val - 1) EXCEPT
                      ![fr.r.cell] = SetAt(@, fr.r.path,
                                           setMapIndex(fr, h, GetAt(h[fr.r.cell], fr.r.path)))]]

parseReturnWith(fr, err, dd, c, w) ==
    IF c.panic THEN Out("panic")
    ELSE blockLoopOut(fr, err, dd, c.heap, w, NextBlock(dd, fr.nesting))

\* parse() returns err: its deferred call, then the loop
parseReturn(fr, err, dd, h, w) == parseReturnWith(fr, err, dd, deferred(fr, h), w)

\* parse(), from the value on: a boolean is set, anything else is a call of
\* unmarshal.  fr holds the key and the cell of a map's value.
parseValue(fr, value, name, h) ==
    IF value.t.kind = "bool"
    THEN IF CountRemainingArgs(d) > 0
         THEN parseReturn(fr, Err("unexpected argument", name), d, h,
                          Append(walk, Made(Err("unexpected argument", name), d)))
         ELSE parseReturn(fr, NoErr, d,
                          [h EXCEPT ![value.cell] = SetAt(@, value.path, TRUE)],
                          Append(walk, [what |-> "flag", depth |-> Len(stack),
                                        cell |-> value.cell, path |-> value.path]))
    ELSE [Out("call") EXCEPT !.heap = h,
                             !.frame = [fr EXCEPT !.pc = "value"],
                             !.callee = Frame("unmarshal", value, 0)]

\* parse() on a line of a map's block
parseMapLine(fr, name, key) ==
    IF IsErr(key.err)
    THEN parseReturn(fr, Wrap(<<"map key", name>>, key.err), d, heap,
                     Append(walk, Made(key.err, d)))
    ELSE parseValue([fr EXCEPT !.key = key.v, !.val = Len(heap) + 1],
                    Ref(Len(heap) + 1, <<>>, fr.r.t.elem), name,
                    Append(heap, Zero(fr.r.t.elem, FALSE)))

\* parseStructLine returning from an unknown line without d.NextSegment()
parseStructLineNoSkip(fr, name, f) ==
    IF ~f.ok THEN parseReturn(fr, NoErr, d, heap, walk)
    ELSE parseValue(fr, FieldRef(fr.r, f.field), name, heap)

\* parse() on a line of a struct's block, f the outcome of blockFieldNamed
parseStructLine(fr, name, f) ==
    IF ~f.ok THEN parseReturn(fr, NoErr, NextSegment(d), heap, walk)
    ELSE parseValue(fr, FieldRef(fr.r, f.field), name, heap)

\* One line of the block: parse(), up to its return or its call of unmarshal
parseLineOut(fr) ==
    IF fr.isMap THEN parseMapLine(fr, Val(d), unmarshalValue(fr.r.t.key, Val(d)))
    ELSE parseStructLine(fr, Val(d), blockFieldNamed(fr.info, fr.r.t.fields, Val(d)))

parseLine ==
    /\ At("unmarshalBlock", "parse")
    /\ Do(parseLineOut(Top))

\* unmarshal has returned ret to parse(): `error at %q: %w`
afterValue ==
    /\ At("unmarshalBlock", "value")
    /\ Do(parseReturn(Top, ret, d, heap, walk))

-----------------------------------------------------------------------------

Init ==
    /\ \E in \in Inputs :
         /\ target = in.T
         /\ tokens = in.tokens
         /\ heap = <<Zero(in.T, in.made)>>
    /\ d = [cursor |-> 0, nesting |-> 0]
    /\ http = FALSE
    /\ stack = <<>>
    /\ status = "idle"
    /\ ret = NoErr
    /\ walk = <<>>

Next ==
    \/ Unmarshal
    \/ UnmarshalForHTTP
    \/ unmarshalEnter
    \/ loopArg
    \/ loopBlock
    \/ afterBlock
    \/ loopEnd
    \/ unmarshalBlockEnter
    \/ parseLine
    \/ afterValue

Spec == Init /\ [][Next]_vars

-----------------------------------------------------------------------------
(* The terms of the properties: what the tags declare *)

Done == status \in {"ok", "error", "panic"}

IsRecord == target.kind = "struct"

\* The top-level unmarshal is past extractFields.
Extracted == status # "idle" /\ ~(status = "running" /\ Len(stack) = 1 /\ Top.pc = "enter")

TagName(f) == Split(f.tag, ",")[1]

\* f is declared $N
DeclArg(f) ==
    /\ f.tag # <<>>
    /\ HasPrefix(TagName(f), <<"$">>)
    /\ AllDigits(Tail(TagName(f)))

\* f is declared {N}
DeclBlock(f) == f.tag # <<>> /\ blockIxMatch(TagName(f))

DeclIndex(f) ==
    IF DeclBlock(f) THEN DigitsVal(SubSeq(TagName(f), 2, Len(TagName(f)) - 1))
    ELSE DigitsVal(Tail(TagName(f)))

DeclOptional(f) == hasOpt(Tail(Split(f.tag, ",")), OptionalWord)

\* The positions of the fields declared $N or {N}
Merged(t) == {k \in 1..Len(t.fields) : DeclArg(t.fields[k]) \/ DeclBlock(t.fields[k])}

HasDuplicateIndex(t) ==
    \E k, h \in Merged(t) : k # h /\ DeclIndex(t.fields[k]) = DeclIndex(t.fields[h])

\* Every optional $N or {N} field has an index above every required one.
OptionalsLast(t) ==
    \A k, h \in Merged(t) :
        (~DeclOptional(t.fields[k]) /\ DeclOptional(t.fields[h]))
            => DeclIndex(t.fields[k]) < DeclIndex(t.fields[h])

\* The top-level unmarshal visited field k in its main loop.
Visited(k) ==
    \E e \in 1..Len(walk) :
        walk[e].what \in {"arg", "block"} /\ walk[e].depth = 1 /\ walk[e].field = k

\* The decode failed in extractFields of the target record, with this error.
SchemaError(kind) ==
    /\ status = "error"
    /\ Len(walk) = 1
    /\ walk[1].what = "error"
    /\ walk[1].depth = 1
    /\ walk[1].kind = kind

\* The directive is its name and arguments, on one line.
ArgsOnly == \A k \in 1..Len(tokens) : tokens[k].line = 1 /\ tokens[k].text # tOpen

\* struct{ F1 string `$1`; F2 string `$2` }
Rec12 == GenRecord(<<1, 2>>)

OneArg == Lines(<< <<tdir, ta>> >>, 1)

ThreeArgs == Lines(<< <<tdir, ta, tb, tc>> >>, 1)

foobar == (<<"f","o","o">> :> <<"b","a","r">>) @@ (<<"b","a","z">> :> <<"q","u","x">>)

-----------------------------------------------------------------------------
(* C1..C10 *)

\* C1: decoding thing1's directive `arg1 { foo bar / baz qux } arg2 { foo bar
\* / baz qux }` into thing1 returns no error and leaves Arg1 = "arg1", Arg2 =
\* "arg2" and the two blocks' entries in Junk1 and Junk2.
C1_Thing1Decoded ==
    (target = thing1 /\ tokens = stream1 /\ Done)
        => /\ status = "ok"
           /\ heap[1][1] = <<"a","r","g","1">>
           /\ heap[1][2] = <<"a","r","g","2">>
           /\ heap[1][3].kv = foobar
           /\ heap[1][4].kv = foobar

\* C2: decoding `arg1 arg2 { parameter value / number 100 / flag }` into
\* thing2 returns no error with Arg1, Arg2 the two arguments, Param = "value",
\* Number = 100 and Flag = true.
C2_Thing2Decoded ==
    (target = thing2 /\ tokens = stream2 /\ Done)
        => /\ status = "ok"
           /\ heap[1][1] = <<"a","r","g","1">>
           /\ heap[1][2] = <<"a","r","g","2">>
           /\ heap[1][3] = <<"v","a","l","u","e">>
           /\ heap[1][4] = 100
           /\ heap[1][5] = TRUE

\* C3: fields are consumed in ascending order of their declared index,
\* whatever the order they are declared in: for a record of required $N
\* fields with distinct indices decoded from as many arguments, the k-th
\* argument ends in the field with the k-th smallest index.
C3_IndexOrder ==
    ( /\ IsRecord
      /\ status = "ok"
      /\ ArgsOnly
      /\ Len(tokens) - 1 = Len(target.fields)
      /\ \A k \in 1..Len(target.fields) :
            DeclArg(target.fields[k]) /\ ~DeclOptional(target.fields[k])
      /\ ~HasDuplicateIndex(target) )
        => \A k \in 1..Len(target.fields) :
              heap[1][k] =
                tokens[1 + Cardinality({h \in 1..Len(target.fields) :
                     DeclIndex(target.fields[h]) <= DeclIndex(target.fields[k])})].text

\* C4: once any step of a decode has failed (an error was made, in a block
\* line as anywhere), nothing more is routed or consumed and the decode does
\* not end in success.
C4_FirstErrorEnds ==
    \A e \in 1..Len(walk) :
        walk[e].what = "error"
            => /\ e = Len(walk)
               /\ d.cursor = walk[e].cursor
               /\ status # "ok"

\* C5: a block line naming a boolean field sets it true when the line has no
\* further token; when it has one, the decode fails with an "unexpected
\* argument" error.
C5_BooleanLine ==
    \A e \in 1..Len(walk) :
        /\ (walk[e].what = "flag" /\ walk[e].cell = 1)
              => GetAt(heap[1], walk[e].path) = TRUE
        /\ ( /\ walk[e].what = "error"
             /\ walk[e].fn = "unmarshalBlock"
             /\ walk[e].kind = "unexpected argument"
             /\ Done )
              => (status = "error" /\ ret.kind = "unexpected argument")

\* C6 as stated: a "missing required field" error reports the declared index
\* of the first required $N or {N} field that was not visited.
C6_ReportsDeclaredIndex ==
    (IsRecord /\ status = "error" /\ ret.kind = "missing required field")
        => \E k \in Merged(target) :
              /\ ~DeclOptional(target.fields[k])
              /\ ~Visited(k)
              /\ DeclIndex(target.fields[k]) = ret.at
              /\ \A h \in Merged(target) :
                    (~DeclOptional(target.fields[h]) /\ ~Visited(h))
                        => DeclIndex(target.fields[k]) <= DeclIndex(target.fields[h])

\* C6, amended: when the main loop of an invocation of unmarshal ends at i
\* while the schema's list of $N and {N} fields holds a non-optional field at
\* a place >= i (counted from 0), the invocation returns a "missing required
\* field" error reporting the place of the first such field, and returns nil
\* when there is none; struct{ $1; $2 } decoded from one argument fails
\* reporting 1.
C6_MissingRequired ==
    /\ [][ (At("unmarshal", "loop") /\ ~NextArg(d).ok /\ ~NextBlock(d, d.nesting).ok)
             => LET req == {p \in Top.i..(Len(Top.info.otherFields) - 1) :
                              ~optional(Top.info.otherFields[p + 1])}
                IN  /\ Len(stack') = Len(stack) - 1
                    /\ (req = {}) => ret'.kind = "nil"
                    /\ (req # {}) => /\ ret'.kind = "missing required field"
                                     /\ ret'.at \in req
                                     /\ \A q \in req : ret'.at <= q
                    /\ (Len(stack) = 1) => status' = IF req = {} THEN "ok" ELSE "error"
         ]_vars
    /\ [](( target = Rec12 /\ tokens = OneArg /\ Done )
             => (status = "error" /\ ret.kind = "missing required field" /\ ret.at = 1))

C6_Witness ==
    /\ target = Rec12
    /\ tokens = OneArg
    /\ status = "error"
    /\ ret.kind = "missing required field"
    /\ ret.at = 1
    /\ Visited(1)
    /\ ~Visited(2)

\* C7: when the main loop of an invocation of unmarshal meets an argument and
\* the schema's list has no field at the walk position i, the invocation
\* returns an "unexpected argument" error reporting i and no value changes;
\* struct{ $1; $2 } decoded from three arguments fails reporting 2.
C7_UnexpectedArgument ==
    /\ [][ (At("unmarshal", "loop") /\ NextArg(d).ok /\ Top.i >= Len(Top.info.otherFields))
             => /\ Len(stack') = Len(stack) - 1
                /\ ret'.kind = "unexpected argument"
                /\ ret'.at = Top.i
                /\ heap' = heap
                /\ (Len(stack) = 1) => status' = "error"
         ]_vars
    /\ [](( target = Rec12 /\ tokens = ThreeArgs /\ Done )
             => /\ status = "error"
                /\ ret.kind = "unexpected argument"
                /\ ret.at = 2
                /\ heap[1] = <<ta, tb>>)

C7_Witness ==
    /\ target = Rec12
    /\ tokens = ThreeArgs
    /\ status = "error"
    /\ ret.kind = "unexpected argument"
    /\ ret.at = 2
    /\ d.cursor = 3
    /\ heap[1] = <<ta, tb>>

\* C8: extraction succeeds for every record whose optional $N and {N} fields
\* all have indices above every required one, and fails with the error of a
\* required field following an optional one for every other record, whatever
\* the order of declaration (records with distinct indices).
C8_OptionalsLast ==
    (IsRecord /\ Extracted /\ ~HasDuplicateIndex(target))
        => /\ OptionalsLast(target)
                => ~(\E k \in {"illegal non-optional field follows optional field",
                              "duplicate field index", "invalid block index",
                              "invalid argument index"} : SchemaError(k))
           /\ ~OptionalsLast(target)
                => SchemaError("illegal non-optional field follows optional field")

\* C9: extraction fails with a duplicate-index error for every record in
\* which two of the $N and {N} fields share an index (and no required field
\* follows an optional one), whatever the order of declaration.
C9_DuplicateIndex ==
    (IsRecord /\ Extracted /\ HasDuplicateIndex(target) /\ OptionalsLast(target))
        => SchemaError("duplicate field index")

\* C10: decoding thing3 through UnmarshalForHTTP reads the leading matcher
\* token, if there is one, into Matcher and goes on to the positional
\* arguments without an error about the matcher.
C10_MatcherRead ==
    (target = thing3 /\ http /\ Done)
        => /\ ret.kind \notin {"cannot unmarshal matcher: UnmarshalForHTTP was not called",
                               "cannot unmarshal matcher: expected caddy.ModuleMap",
                               "unrecognized matcher name"}
           /\ heap[1][2] = <<"a","r","g","1">>
           /\ heap[1][3] = <<"a","r","g","2">>
           /\ (tokens = stream3) => heap[1][1].kv = (<<"p","a","t","h">> :> << <<"/","*">> >>)
           /\ (tokens = stream3NoMatcher) => heap[1][1] = Zero(TypeCaddyModuleMap, TRUE)

-----------------------------------------------------------------------------
(* C11..C20 *)

\* t declares a $matcher field
DeclMatcher(t) ==
    \E k \in 1..Len(t.fields) :
        t.fields[k].tag # <<>> /\ TagName(t.fields[k]) = MatcherWord

\* C11: decoding a record that declares a $matcher field through Unmarshal
\* (no helper) returns the error that UnmarshalForHTTP was not called, with
\* the cursor still at its initial position, nothing routed and no field
\* changed.
C11_MatcherNeedsHelper ==
    (IsRecord /\ DeclMatcher(target) /\ status # "idle" /\ ~http)
        => /\ d = [cursor |-> 0, nesting |-> 0]
           /\ heap = <<Zero(target, TRUE)>>
           /\ \A e \in 1..Len(walk) : walk[e].what = "error"
           /\ Done => /\ status = "error"
                      /\ ret.kind = "cannot unmarshal matcher: UnmarshalForHTTP was not called"

C11_Witness ==
    /\ target = thing3
    /\ tokens = stream3
    /\ ~http
    /\ status = "error"
    /\ ret.kind = "cannot unmarshal matcher: UnmarshalForHTTP was not called"
    /\ d.cursor = 0
    /\ heap = <<Zero(thing3, TRUE)>>

\* C12: a block decoded into a map field stores, for every line, the line's
\* remainder decoded into a fresh value under the line's first token; a
\* repeated key overwrites the earlier value, and the decode returns no error.
C12_MapLastWins ==
    (target = TDict /\ Done)
        => /\ (tokens = Body(<< <<tk, tv>> >>))
                => (status = "ok" /\ heap[1][1].kv = (tk :> <<tv>>))
           /\ (tokens = Body(<< <<tk, tv>>, <<tk, tw>> >>))
                => (status = "ok" /\ heap[1][1].kv = (tk :> <<tw>>))
           /\ (tokens = Body(<< <<tk, tv>>, <<ta, tw>> >>))
                => (status = "ok" /\ heap[1][1].kv = (tk :> <<tv>>) @@ (ta :> <<tw>>))

RECURSIVE LastOnLine(_)
\* The cursor of the last token of the run of tokens that starts at cursor c
\* and goes on along the line up to an opening brace
LastOnLine(c) ==
    IF /\ c + 2 <= Len(tokens)
       /\ tokens[c + 2].line = tokens[c + 1].line
       /\ tokens[c + 2].text # tOpen
    THEN LastOnLine(c + 1)
    ELSE c

RECURSIVE CloseOf(_, _)
\* The cursor of the brace that closes the block entered depth braces deep,
\* looked for from cursor c on (the last token when nothing closes it)
CloseOf(c, depth) ==
    IF c + 1 >= Len(tokens) THEN Len(tokens) - 1
    ELSE IF tokens[c + 1].text = tClose
    THEN IF depth = 1 THEN c ELSE CloseOf(c + 1, depth - 1)
    ELSE IF tokens[c + 1].text = tOpen THEN CloseOf(c + 1, depth + 1)
    ELSE CloseOf(c + 1, depth)

\* The cursor of the last token of the line that starts at cursor c: its
\* tokens, its sub-block if it opens one, and what follows the closing brace
\* on its line
LineEnd(c) ==
    IF /\ LastOnLine(c) + 2 <= Len(tokens)
       /\ tokens[LastOnLine(c) + 2].line = tokens[LastOnLine(c) + 1].line
       /\ tokens[LastOnLine(c) + 2].text = tOpen
    THEN LastOnLine(CloseOf(LastOnLine(c) + 2, 1))
    ELSE LastOnLine(c)

UnknownLine ==
    /\ At("unmarshalBlock", "parse")
    /\ ~Top.isMap
    /\ ~blockFieldNamed(Top.info, Top.r.t.fields, Val(d)).ok

unk == <<"U","n","k">>

\* C13: in a block decoded into a record, a line whose first token names no
\* block-entry field is skipped: no value changes, no error is made, the
\* cursor passes the line's tokens and its sub-block, and the block's loop
\* goes on to the next line unless the block ends there; the lines after an
\* unknown one are decoded.
C13_UnknownLineSkipped ==
    /\ [][ UnknownLine
             => /\ heap' = heap
                /\ walk' = walk
                /\ status' = "running"
                /\ d'.cursor = IF LineEnd(d.cursor) + 2 <= Len(tokens)
                               THEN LineEnd(d.cursor) + 1 ELSE Len(tokens) - 1
                /\ IF LineEnd(d.cursor) + 2 <= Len(tokens)
                      /\ tokens[LineEnd(d.cursor) + 2].text # tClose
                   THEN /\ Len(stack') = Len(stack)
                        /\ stack'[Len(stack)].pc = "parse"
                        /\ d'.nesting = d.nesting
                   ELSE /\ Len(stack') = Len(stack) - 1
                        /\ ret'.kind = "nil"
         ]_vars
    /\ [](( target = TOuter /\ Done /\ tokens = Body(<< <<unk, ta, tb>>, <<tFlag>> >>) )
             => (status = "ok" /\ heap[1] = << <<TRUE, <<0>>, <<>>, <<>> >>, <<>> >>))
    /\ [](( /\ target = TOuter
            /\ Done
            /\ tokens = Body(<< <<unk, tOpen>>, <<tFlag>>, <<tClose>>, <<tNum, <<"7">> >> >>) )
             => (status = "ok" /\ heap[1] = << <<FALSE, <<7>>, <<>>, <<>> >>, <<>> >>))

C13_Witness ==
    /\ target = TOuter
    /\ tokens = Body(<< <<unk, tOpen>>, <<tFlag>>, <<tClose>>, <<tNum, <<"7">> >> >>)
    /\ status = "ok"
    /\ heap[1] = << <<FALSE, <<7>>, <<>>, <<>> >>, <<>> >>
    /\ d.cursor = Len(tokens) - 1

RECURSIVE BadSchema(_)
\* The tags of the record type t, or of a record type met through its
\* fields, repeat an index or put a required field after an optional one.
BadSchema(t) ==
    CASE t.kind = "struct" ->
            \/ ~OptionalsLast(t)
            \/ HasDuplicateIndex(t)
            \/ \E k \in 1..Len(t.fields) : BadSchema(t.fields[k].type)
      [] t.kind = "map" -> BadSchema(t.elem)
      [] OTHER -> FALSE

SchemaErrorKinds ==
    {"illegal non-optional field follows optional field", "duplicate field index",
     "invalid block index", "invalid argument index"}

\* C14: a schema error of the target record, or of a record type nested in
\* it through its block fields, makes the decode fail with that error before
\* the cursor has consumed any token.
C14_SchemaErrorsFirst ==
    (IsRecord /\ BadSchema(target) /\ Extracted)
        => /\ \E k \in SchemaErrorKinds : SchemaError(k)
           /\ d.cursor = 0

\* The main loop is at a same-level block with no field at walk position i.
BlockWithoutField ==
    /\ At("unmarshal", "loop")
    /\ ~NextArg(d).ok
    /\ NextBlock(d, d.nesting).ok
    /\ ~otherFieldAt(Top.info, Top.i).ok

\* The entries of the history for blocks the top-level invocation took as
\* the body of the record
BodiesTaken ==
    {e \in 1..Len(walk) : walk[e].what = "block" /\ walk[e].depth = 1 /\ walk[e].field = 0}

\* C15: an invocation of unmarshal takes at most one block as the implicit
\* body of its record: the first same-level block with no field at walk
\* position i is decoded into the record itself and sets hadBlock, a later
\* one fails with "unexpected block" at i, and hadBlock never returns to
\* false.
C15_OneImplicitBody ==
    /\ [][ BlockWithoutField
             => IF Top.hadBlock
                THEN /\ Len(stack') = Len(stack) - 1
                     /\ ret'.kind = "unexpected block"
                     /\ ret'.at = Top.i
                     /\ heap' = heap
                ELSE /\ Len(stack') = Len(stack) + 1
                     /\ stack'[Len(stack)].hadBlock
                     /\ stack'[Len(stack) + 1].fn = "unmarshalBlock"
                     /\ stack'[Len(stack) + 1].r = Top.r
         ]_vars
    /\ [][ \A k \in 1..Len(stack) :
             (k <= Len(stack') /\ stack[k].hadBlock) => stack'[k].hadBlock ]_vars
    /\ [](Cardinality(BodiesTaken) <= 1)
    /\ [](( target = TImpl /\ tokens = TwoBlocks /\ Done )
             => (status = "error" /\ ret.kind = "unexpected block" /\ ret.at = 2))

C15_Witness ==
    /\ target = TImpl
    /\ tokens = TwoBlocks
    /\ status = "error"
    /\ ret.kind = "unexpected block"
    /\ ret.at = 2
    /\ Cardinality(BodiesTaken) = 1

\* C16: a block line (or map entry) whose value is a string or an integer
\* has its remaining token coerced into that value by the main loop, and the
\* decode neither fails nor crashes: no call of unmarshal on such a value
\* panics, and thing2's body `Flag / Number 100` leaves Number = 100.
C16_PrimitiveLine ==
    /\ ~( /\ status = "panic"
          /\ Top.fn = "unmarshal"
          /\ Top.r.t.kind \in {"string", "int"} )
    /\ (target = thing2 /\ tokens = stream2Go /\ Done)
          => (status = "ok" /\ heap[1][4] = 100 /\ heap[1][5] = TRUE)

\* The main loop is at an argument whose coercion into the field at i fails.
CoercionFails ==
    /\ At("unmarshal", "loop")
    /\ NextArg(d).ok
    /\ otherFieldAt(Top.info, Top.i).ok
    /\ IsErr(argValue(Top, otherFieldAt(Top.info, Top.i), Val(NextArg(d).d)).err)

NumLine(a, b) == Lines(<< <<tdir, a, b>> >>, 1)

\* C17: when the coercion of a token into a field fails (text that is no
\* number, a number out of the field's range, text that is no boolean, a
\* field of unsupported type) the invocation returns the error and every
\* value is as it was before the attempt; a field set by an earlier token
\* keeps that value.
C17_FailedCoercionWritesNothing ==
    /\ [][ CoercionFails
             => /\ heap' = heap
                /\ Len(stack') = Len(stack) - 1
                /\ IsErr(ret') ]_vars
    /\ [](( target = TNums /\ Done /\ tokens = NumLine(<<"7">>, <<"m","a","y","b","e">>) )
             => (status = "error" /\ heap[1] = <<7, FALSE>>))
    /\ [](( target = TNums /\ Done /\ tokens = NumLine(<<"-","5">>, <<"0">>) )
             => (status = "ok" /\ heap[1] = <<0 - 5, FALSE>>))
    /\ [](( /\ target = TNums
            /\ Done
            /\ tokens \in { Lines(<< <<tdir, <<"3","0","0">> >> >>, 1),
                            Lines(<< <<tdir, <<"-","1","2","9">> >> >>, 1),
                            Lines(<< <<tdir, <<"x">> >> >>, 1) } )
             => (status = "error" /\ ret.kind = "cannot parse int" /\ heap[1] = <<0, FALSE>>))
    /\ [](( /\ target = TOuter
            /\ Done
            /\ tokens = Body(<< <<tNum, <<"7">> >>, <<tNum, <<"3","0","0">> >> >>) )
             => heap[1][1][2] = <<7>>)

C17_Witness ==
    /\ target = TOuter
    /\ tokens = Body(<< <<tNum, <<"7">> >>, <<tNum, <<"3","0","0">> >> >>)
    /\ Done
    /\ heap[1][1][2] = <<7>>
    /\ \E e \in 1..Len(walk) : walk[e].what = "error" /\ walk[e].kind = "cannot parse int"

\* C18: a map gets an entry only when the decode of the line's value has
\* succeeded: after the line `k v w` (an argument too many for the value) or
\* the line `k` (the value's required argument missing), the map has no
\* entry for k.
C18_NoEntryOnFailure ==
    ( /\ target = TDict
      /\ tokens \in { Body(<< <<tk, tv, tw>>, <<ta, tw>> >>),
                      Body(<< <<tk>>, <<ta, tw>> >>) } )
        => tk \notin DOMAIN heap[1][1].kv

\* The opening braces of the input, a bound of its nesting depth
Braces == Cardinality({k \in 1..Len(tokens) : tokens[k].text = tOpen})

\* What a call has left to do before it next moves the cursor or returns
PcRank(fr) ==
    CASE fr.pc = "enter" -> IF fr.fn = "unmarshalBlock" THEN 5 ELSE 2
      [] fr.pc = "parse" -> 4
      [] fr.pc = "block" -> 2
      [] OTHER -> 1

RECURSIVE RankSum(_)
RankSum(s) == IF s = <<>> THEN 0 ELSE PcRank(Head(s)) + RankSum(Tail(s))

\* A number that every step of a decode lowers: the tokens ahead of the
\* cursor weigh more than all a step can add to the calls' ranks.
Measure ==
    10 * (Len(tokens) - d.cursor) + RankSum(stack)
       + (CASE status = "idle" -> 4 [] status = "running" -> 1 [] OTHER -> 0)

\* C19: every decode call ends, with success or with an error: every step
\* lowers a natural number, each pass of the main loop and of the block's
\* loop moves the cursor on by at least one token, the depth of the calls is
\* bounded by the nesting depth of the input, and no call ends in a crash.
C19_Terminates ==
    /\ [][Measure' < Measure]_vars
    /\ [](Measure >= 0)
    /\ [][ ( /\ status = "running"
             /\ Len(stack') = Len(stack)
             /\ Top.pc \in {"loop", "parse", "value"}
             /\ stack'[Len(stack)].pc \in {"loop", "parse"} )
              => d'.cursor > d.cursor ]_vars
    /\ [](Len(stack) <= 2 * Braces + 1)
    /\ [](status # "panic")

\* C20: when a decode returns success, every field of the target record
\* declared $N or {N} without `optional` was assigned from an argument or a
\* block of the input during the call.
C20_RequiredAssigned ==
    (IsRecord /\ status = "ok")
        => \A k \in Merged(target) : ~DeclOptional(target.fields[k]) => Visited(k)

====
